---- MODULE Spec2Model ----
(***************************************************************************)
(* Model of LevelMixin (src/src/mixins.py): the level / experience state   *)
(* of one entity, the threshold property next_level, and the operations    *)
(* give_exp and level_up.  level_up's while loop is modelled one iteration *)
(* per step, because whether it terminates is one of the properties.       *)
(*                                                                         *)
(* Optional values (max_level, a returned message) are sequences: << >> is *)
(* Python's None and <<v>> is the value v.  print_exp is "True", "False"   *)
(* or "None".  iter_parity is the number of loop-body iterations the       *)
(* running call has executed, modulo 2.                                    *)
(* The float exponent is the rational exponent[1]/exponent[2];             *)
(* floor(base_exp * level ** exponent) is computed exactly with integer    *)
(* roots, which agrees with the float result for every value in range.     *)
(***************************************************************************)
EXTENDS Integers, Sequences, FiniteSets

VARIABLES level, experience, exponent, base_exp, max_level, init_level,
          pc, op, amount, check_level_up, arg_print_exp, print_exp,
          start_level, pre_exp, msg, ret, iter_parity

vars == <<level, experience, exponent, base_exp, max_level, init_level,
          pc, op, amount, check_level_up, arg_print_exp, print_exp,
          start_level, pre_exp, msg, ret, iter_parity>>

(* The growth-curve parameters and the cap are set by __init__ and never   *)
(* assigned again; init_level records the level __init__ was given.       *)
config == <<exponent, base_exp, max_level, init_level>>

(* ---- bounds ---------------------------------------------------------- *)
MaxLvl == 8
MaxCap == 3
MaxInitLevel == 2
MaxInitExp == 1
MaxExp == 5
MaxDebt == 2
MaxAmount == 2

None == << >>
Some(v) == <<v>>

BaseExps == {-1, 0, 1, 2}
Exponents == {<<-1, 1>>, <<0, 1>>, <<1, 2>>, <<1, 1>>, <<8, 5>>}
PrintModes == {"True", "False", "None"}
Amounts == (0 - MaxAmount)..MaxAmount

Abs(x) == IF x < 0 THEN 0 - x ELSE x

(* ---- next_level: floor(base_exp * level ** exponent) ----------------- *)
(* n <= B * l^(num/den), for n, B >= 0, compared after raising to den.    *)
LeScaled(n, B, e, l) ==
    IF e[1] >= 0 THEN n ^ e[2] <= (B ^ e[2]) * (l ^ e[1])
                 ELSE (n ^ e[2]) * (l ^ (0 - e[1])) <= B ^ e[2]

GeScaled(n, B, e, l) ==
    IF e[1] >= 0 THEN n ^ e[2] >= (B ^ e[2]) * (l ^ e[1])
                 ELSE (n ^ e[2]) * (l ^ (0 - e[1])) >= B ^ e[2]

(* An upper bound of B * l^(num/den) for l >= 1: B * l^ceil(num/den).     *)
ScaledUpper(B, e, l) ==
    IF e[1] >= 0 THEN B * (l ^ ((e[1] + e[2] - 1) \div e[2])) ELSE B

FloorScaled(B, e, l) ==
    CHOOSE n \in 0..ScaledUpper(B, e, l) :
        LeScaled(n, B, e, l) /\ ~LeScaled(n + 1, B, e, l)

CeilScaled(B, e, l) ==
    CHOOSE n \in 0..ScaledUpper(B, e, l) :
        GeScaled(n, B, e, l) /\ (n = 0 \/ ~GeScaled(n - 1, B, e, l))

NextLevelDivides(b, e, l) ==
    IF b >= 0 THEN FloorScaled(b, <<0 - e[1], e[2]>>, l)
              ELSE 0 - CeilScaled(Abs(b), <<0 - e[1], e[2]>>, l)

NextLevelAt(b, e, l) ==
    IF b >= 0 THEN FloorScaled(b, e, l)
              ELSE 0 - CeilScaled(Abs(b), e, l)

NextLevel == NextLevelAt(base_exp, exponent, level)

(* ---- the pieces of level_up and give_exp ----------------------------- *)
LoopCondStrict(nl, exp) == nl < exp

LoopCond(nl, exp) == nl <= exp

CanLevelInclusive(lvl, ml) == IF ml = None THEN TRUE ELSE lvl <= ml[1]

CanLevel(lvl, ml) == IF ml = None THEN TRUE ELSE lvl < ml[1]

IncLevelDown(lvl) == lvl - 1

IncLevel(lvl) == lvl + 1

PrintExpAlways(pe) == "True"

PrintExpAfterGain(pe) == IF pe # "None" THEN "True" ELSE pe

ShouldReport(pe, lvl, ml) ==
    pe = "True" /\ (IF ml = None THEN TRUE ELSE lvl < ml[1])

Message(nl, exp) == Some(nl - exp)

AddExpSubtracts(exp, amt) == exp - amt

AddExp(exp, amt) == exp + amt

DoCheckAlways(check) == TRUE

DoCheck(check) == check

(* ---- construction ----------------------------------------------------- *)
Init ==
    /\ level \in 1..MaxInitLevel
    /\ experience \in 0..MaxInitExp
    /\ exponent \in Exponents
    /\ base_exp \in BaseExps
    /\ max_level \in {None} \cup {Some(m) : m \in 1..MaxCap}
    /\ init_level = level
    /\ pc = "idle"
    /\ op = "none"
    /\ amount = 0
    /\ check_level_up = FALSE
    /\ arg_print_exp = "False"
    /\ print_exp = "False"
    /\ start_level = level
    /\ pre_exp = experience
    /\ msg = None
    /\ ret = None
    /\ iter_parity = 0

(* ---- give_exp(amount, check_level_up, print_exp) ---------------------- *)
GiveExp(a, c, pe) ==
    /\ pc = "idle"
    /\ experience + a \in (0 - MaxDebt)..MaxExp
    /\ experience' = AddExp(experience, a)
    /\ op' = "give_exp"
    /\ amount' = a
    /\ check_level_up' = c
    /\ arg_print_exp' = pe
    /\ print_exp' = pe
    /\ start_level' = level
    /\ pre_exp' = experience
    /\ msg' = None
    /\ ret' = None
    /\ iter_parity' = 0
    /\ pc' = IF DoCheck(c) THEN "loop" ELSE "idle"
    /\ UNCHANGED <<level, config>>

(* ---- level_up(print_exp) called directly ------------------------------ *)
LevelUpCall(pe) ==
    /\ pc = "idle"
    /\ op' = "level_up"
    /\ amount' = 0
    /\ check_level_up' = TRUE
    /\ arg_print_exp' = pe
    /\ print_exp' = pe
    /\ start_level' = level
    /\ pre_exp' = experience
    /\ msg' = None
    /\ ret' = None
    /\ iter_parity' = 0
    /\ pc' = "loop"
    /\ UNCHANGED <<level, experience, config>>

(* ---- one iteration of the while loop that gains a level --------------- *)
LoopIncrement ==
    /\ pc = "loop"
    /\ level < MaxLvl
    /\ LoopCond(NextLevel, experience)
    /\ CanLevel(level, max_level)
    /\ level' = IncLevel(level)
    /\ print_exp' = PrintExpAfterGain(print_exp)
    /\ iter_parity' = 1 - iter_parity
    /\ UNCHANGED <<experience, config, pc, op, amount, check_level_up,
                   arg_print_exp, start_level, pre_exp, msg, ret>>

(* ---- one iteration of the while loop at the cap: the if is false, the - *)
(* ---- body assigns nothing and control returns to the loop test -------- *)
LoopSpin ==
    /\ pc = "loop"
    /\ LoopCond(NextLevel, experience)
    /\ ~CanLevel(level, max_level)
    /\ iter_parity' = 1 - iter_parity
    /\ UNCHANGED <<level, experience, config, pc, op, amount, check_level_up,
                   arg_print_exp, print_exp, start_level, pre_exp, msg, ret>>

(* ---- the loop test fails: report, return to the caller ---------------- *)
LoopExit ==
    /\ pc = "loop"
    /\ ~LoopCond(NextLevel, experience)
    /\ msg' = IF ShouldReport(print_exp, level, max_level)
                THEN Message(NextLevel, experience) ELSE None
    /\ ret' = IF op = "level_up" THEN msg' ELSE None
    /\ pc' = "idle"
    /\ UNCHANGED <<level, experience, config, op, amount, check_level_up,
                   arg_print_exp, print_exp, start_level, pre_exp, iter_parity>>

Next ==
    \/ \E a \in Amounts, c \in BOOLEAN, pe \in PrintModes : GiveExp(a, c, pe)
    \/ \E pe \in PrintModes : LevelUpCall(pe)
    \/ LoopIncrement
    \/ LoopSpin
    \/ LoopExit

Spec == Init /\ [][Next]_vars

(* The interpreter keeps executing a running call: each loop step that    *)
(* changes the state is eventually taken.                                  *)
FairSpec ==
    Spec /\ WF_vars(LoopIncrement) /\ WF_vars(LoopSpin) /\ WF_vars(LoopExit)

(* ====================================================================== *)
(* Properties                                                              *)
(* ====================================================================== *)
Positive == base_exp > 0 /\ exponent[1] > 0

Capped == IF max_level = None THEN FALSE ELSE level >= max_level[1]

(* A call that evaluated level_up has returned. *)
Evaluated ==
    pc = "idle" /\ (op = "level_up" \/ (op = "give_exp" /\ check_level_up))

MaxOf(a, b) == IF a >= b THEN a ELSE b

(* C1: with positive base_exp and exponent, every call that enters the    *)
(* level-up loop returns (or leaves the modelled level range), capped or  *)
(* not; in particular at the cap with experience >= next_level.           *)
C1_Terminates ==
    [](Positive /\ pc = "loop" => <>(pc = "idle" \/ level >= MaxLvl))

(* C2 as stated: with max_level = M set, level <= M in every reachable    *)
(* state, whatever level the constructor was given.                       *)
C2_CapRespected == max_level # None => level <= max_level[1]

(* C2 amended: level never exceeds the larger of M and the level the      *)
(* entity was constructed with; so level <= M whenever it started <= M.   *)
C2_CapRespectedFromBelow ==
    max_level # None => level <= MaxOf(max_level[1], init_level)

C2_Witness ==
    /\ max_level # None
    /\ init_level < max_level[1]
    /\ level = max_level[1]
    /\ pc = "loop"
    /\ LoopCond(NextLevel, experience)
    /\ ~CanLevel(level, max_level)

(* C3: give_exp with check_level_up returns what level_up returned.       *)
C3_ReturnsLevelUpMessage ==
    (pc = "idle" /\ op = "give_exp" /\ check_level_up) => ret = msg

(* C4: level never decreases from one state to the next, whatever the     *)
(* amounts, flags and print modes of the calls.                           *)
C4_NoLevelRegression == [][level' >= level]_vars

C4_Witness ==
    /\ pc = "idle" /\ op = "give_exp" /\ check_level_up
    /\ amount < 0
    /\ level > init_level
    /\ experience < NextLevelAt(base_exp, exponent, level - 1)

(* C5 as stated: experience never decreases across give_exp calls.        *)
C5_ExperienceNeverDecreases == [][experience' >= experience]_vars

(* C5 amended: experience changes only at the start of a give_exp call,   *)
(* to exactly experience + amount; it does not decrease when amount >= 0. *)
C5_ExperienceAddsAmount ==
    [][experience' # experience =>
          /\ pc = "idle"
          /\ op' = "give_exp"
          /\ experience' = experience + amount'
          /\ (amount' >= 0 => experience' > experience)]_vars

C5_Witness ==
    /\ pc = "idle" /\ op = "give_exp"
    /\ amount < 0
    /\ experience < pre_exp
    /\ experience < 0

(* C6: when level_up has returned, it produced a message exactly when     *)
(* (print_exp was True, or print_exp was False and a level was gained in  *)
(* this call) and the entity is not at or above a set max_level; the      *)
(* message carries next_level - experience.                               *)
C6_ReportingRule ==
    Evaluated =>
        /\ (msg # None) <=>
              /\ \/ arg_print_exp = "True"
                 \/ arg_print_exp = "False" /\ level > start_level
              /\ ~Capped
        /\ (msg # None => msg = Some(NextLevel - experience))

C6_Witness ==
    /\ Evaluated
    /\ arg_print_exp = "None"
    /\ level > start_level
    /\ ~Capped
    /\ msg = None

(* C7: give_exp(amount, check_level_up=False) returns at once with        *)
(* experience raised by exactly amount, level and the configuration       *)
(* unchanged and no message, even when experience >= next_level.          *)
C7_NoCheckFrame ==
    [][(pc = "idle" /\ op' = "give_exp" /\ ~check_level_up') =>
          /\ pc' = "idle"
          /\ experience' = experience + amount'
          /\ level' = level
          /\ config' = config
          /\ msg' = None
          /\ ret' = None]_vars

C7_Witness ==
    /\ pc = "idle" /\ op = "give_exp" /\ ~check_level_up
    /\ Positive
    /\ amount > 0
    /\ pre_exp < NextLevel
    /\ experience >= NextLevel
    /\ CanLevel(level, max_level)
    /\ level = start_level

(* C8 as stated: for positive base_exp and exponent, next_level is        *)
(* strictly increasing in level.                                          *)
C8_StrictlyMonotone ==
    Positive =>
        \A l1 \in 1..MaxLvl, l2 \in 1..MaxLvl :
            l1 < l2 => NextLevelAt(base_exp, exponent, l1)
                         < NextLevelAt(base_exp, exponent, l2)

(* C8 amended: for positive base_exp and exponent, next_level never       *)
(* decreases as level grows (the floor can make neighbouring levels tie). *)
C8_Monotone ==
    Positive =>
        \A l1 \in 1..MaxLvl, l2 \in 1..MaxLvl :
            l1 < l2 => NextLevelAt(base_exp, exponent, l1)
                         <= NextLevelAt(base_exp, exponent, l2)

C8_Witness ==
    /\ Positive
    /\ pc = "loop"
    /\ level > start_level
    /\ NextLevelAt(base_exp, exponent, level - 1) = NextLevel

(* C9: with base_exp or exponent zero or negative, every call that enters *)
(* the level-up loop still returns (or leaves the modelled level range).  *)
C9_DegenerateCompletes ==
    [](~Positive /\ pc = "loop" => <>(pc = "idle" \/ level >= MaxLvl))

(* C10: level changes only by +1, inside the loop, when next_level at the *)
(* current level is <= experience; when an evaluation returns below the   *)
(* cap or uncapped, experience < next_level, every level passed in this   *)
(* call had its threshold <= experience, and a reported remainder is >= 0.*)
C10_PostState ==
    (Evaluated /\ ~Capped) =>
        /\ experience < NextLevel
        /\ \A l \in start_level..(level - 1) :
              NextLevelAt(base_exp, exponent, l) <= experience
        /\ (msg # None => msg[1] >= 0)

C10_LevelUpPostCondition ==
    /\ []C10_PostState
    /\ [][level' # level =>
            /\ level' = level + 1
            /\ pc = "loop"
            /\ NextLevel <= experience]_vars

C10_Witness ==
    /\ Evaluated /\ ~Capped
    /\ Positive
    /\ level >= start_level + 2
    /\ msg # None

====
